---- MODULE Spec2Model ----
(***************************************************************************)
(* Owner-name resolution orchestrator of scrape_owner_names.py: loading    *)
(* the incident addresses, grouping them by town, the four per-town        *)
(* scrapers and the writing of the result set.                             *)
(*                                                                         *)
(* Text is modelled as a sequence of symbols (words for addresses,         *)
(* characters for owner cells); a Python value is a record [t, v] whose    *)
(* tag t tells a str from None, a float NaN, a number or a missing key.    *)
(***************************************************************************)
EXTENDS Integers, Sequences, FiniteSets, TLC

VARIABLES
    pc,              \* position of main / of the running scraper
    fileType,        \* extension of args.input_file
    fileItems,       \* the address value of each record of the input file
    sync_playwright, \* module global: "installed" or "None" (import failed)
    addresses,       \* main: addresses
    groups,          \* main: groups
    townIdx,         \* main: position in groups.items()
    i,               \* the scraper's position in its address list
    results,         \* the scraper's local results list
    all_results,     \* main: all_results
    written,         \* the result list save_results wrote (once pc = "done")
    http,            \* the HTTP exchange of the current search_bas_portal call
    pageCalls,       \* number of page.goto calls made by scrape_ramapo
    ramapoDown,      \* scrape_ramapo took one of its two group-wide error returns
    lookups,         \* per town: for each address looked up, did the lookup raise
    returned,        \* per town: the list its scraper returned to main
    df,              \* scrape_stony_point: the loaded assessment roll
    spRoll,          \* "unloaded", "loaded" or "failed" (download or parse)
    crashSite        \* where an exception left main, or "none"

vars == <<pc, fileType, fileItems, sync_playwright, addresses, groups, townIdx, i,
          results, all_results, written, http, pageCalls, ramapoDown, lookups,
          returned, df, spRoll, crashSite>>

(***************************************************************************)
(* Bounds                                                                  *)
(***************************************************************************)
MaxAddrs == 2

(***************************************************************************)
(* Python values                                                           *)
(***************************************************************************)
None == [t |-> "None", v |-> <<>>]
NaN == [t |-> "nan", v |-> <<>>]
Num == [t |-> "num", v |-> <<>>]
Absent == [t |-> "absent", v |-> <<>>]
Raise == [t |-> "raise", v |-> <<>>]
Str(s) == [t |-> "str", v |-> s]

\* bool(x): None and "" are falsy; a non-empty str, a NaN float and a number are truthy
Truthy(x) == \/ x.t = "str" /\ x.v # <<>>
             \/ x.t = "nan"
             \/ x.t = "num"

\* str.lower() on one symbol
Lower(c) ==
    CASE c \in {"Clarkstown", "CLARKSTOWN"} -> "clarkstown"
      [] c \in {"Orangetown", "ORANGETOWN"} -> "orangetown"
      [] c \in {"Ramapo", "RAMAPO"} -> "ramapo"
      [] c \in {"Stony", "STONY"} -> "stony"
      [] c \in {"Point", "POINT"} -> "point"
      [] c \in {"Elm", "ELM"} -> "elm"
      [] c \in {"Main", "MAIN"} -> "main"
      [] OTHER -> c

\* needle.lower() in hay.lower()
Contains(hay, needle) ==
    \E k \in 0..(Len(hay) - Len(needle)) :
        \A j \in 1..Len(needle) : Lower(hay[k + j]) = Lower(needle[j])

\* str.strip() / get_text(strip=True)
RECURSIVE LStrip(_)
LStrip(s) == IF s # <<>> /\ Head(s) = " " THEN LStrip(Tail(s)) ELSE s
RECURSIVE RStrip(_)
RStrip(s) == IF s # <<>> /\ s[Len(s)] = " " THEN RStrip(SubSeq(s, 1, Len(s) - 1)) ELSE s
Strip(s) == RStrip(LStrip(s))

(***************************************************************************)
(* Towns and grouping                                                      *)
(***************************************************************************)
TOWNS == <<"Clarkstown", "Orangetown", "Ramapo", "Stony Point">>

TownText(town) ==
    CASE town = "Clarkstown" -> <<"Clarkstown">>
      [] town = "Orangetown" -> <<"Orangetown">>
      [] town = "Ramapo" -> <<"Ramapo">>
      [] town = "Stony Point" -> <<"Stony", "Point">>

\* insertion order of the dict built by group_addresses_by_town
GroupKeys == TOWNS \o <<"Unknown">>
KeySet == {GroupKeys[k] : k \in 1..Len(GroupKeys)}

\* address.lower() raises AttributeError unless address is a str
HasLower(address) == address.t = "str"

detect_town(address) ==
    LET hits == {k \in 1..Len(TOWNS) : Contains(address.v, TownText(TOWNS[k]))}
    IN  IF hits = {} THEN "None"
        ELSE TOWNS[CHOOSE k \in hits : \A m \in hits : k <= m]

GroupOf(address) ==
    LET town == detect_town(address)
    IN  IF town # "None" THEN town ELSE "Unknown"

\* variant: the address is appended to the group of every town it names
group_addresses_every_match(addrs) ==
    [key \in KeySet |->
        SelectSeq(addrs, LAMBDA a :
            IF key = "Unknown" THEN detect_town(a) = "None"
            ELSE Contains(a.v, TownText(key)))]

group_addresses_by_town(addrs) ==
    LET grouped[k \in 0..Len(addrs)] ==
            IF k = 0 THEN [key \in KeySet |-> <<>>]
            ELSE [grouped[k - 1] EXCEPT ![GroupOf(addrs[k])] = Append(@, addrs[k])]
    IN  grouped[Len(addrs)]

(***************************************************************************)
(* Input                                                                   *)
(***************************************************************************)
AddrClarkstown == Str(<<"12", "Main", "St", "CLARKSTOWN">>)
AddrOrangetown == Str(<<"7", "RAMAPO", "Ave", "Orangetown">>)
AddrRamapo == Str(<<"3", "Oak", "Rd", "Ramapo">>)
AddrStony == Str(<<"9", "Elm", "Stony", "Point">>)
AddrStonyParen == Str(<<"9", "Elm", "(", "Stony", "Point">>)
AddrNowhere == Str(<<"45", "Elm", "Rd", "Nowhere">>)

\* the address value of a record: a string, null, a number, or no address key
ItemValues == {AddrClarkstown, AddrOrangetown, AddrRamapo, AddrStony, AddrStonyParen,
               AddrNowhere, None, Num, Absent}

RECURSIVE SeqsUpTo(_, _)
SeqsUpTo(S, n) ==
    IF n = 0 THEN {<<>>}
    ELSE LET shorter == SeqsUpTo(S, n - 1)
         IN  shorter \cup {Append(s, x) : s \in {q \in shorter : Len(q) = n - 1}, x \in S}

FileTypes == {"json", "csv", "other"}

\* item.get("address", "") for each item of the JSON array
LoadJson(items) ==
    [k \in 1..Len(items) |-> IF items[k].t = "absent" THEN Str(<<>>) ELSE items[k]]

\* df.get("address", pd.Series()).dropna().tolist(): empty and null cells are dropped;
\* read_csv yields numbers only for a column with no text in it, and otherwise reads a
\* numeric cell as the string of its digits
LoadCsv(items) ==
    LET kept == SelectSeq(items, LAMBDA x : x.t \notin {"absent", "None", "nan"})
        text == \E k \in 1..Len(kept) : kept[k].t = "str"
    IN  [k \in 1..Len(kept) |-> IF kept[k].t = "num" /\ text THEN Str(<<"7">>) ELSE kept[k]]

load_incident_addresses(type, items) ==
    IF type = "json" THEN LoadJson(items) ELSE LoadCsv(items)

(***************************************************************************)
(* Results                                                                 *)
(***************************************************************************)
ScrapeResult(address, owner, source, status) ==
    [address |-> address, owner_name |-> owner, source |-> source, status |-> status]

\* status = "success" if owner else "not found"
StatusOf(owner) == IF Truthy(owner) THEN "success" ELSE "not found"

\* variant: a group-wide failure returns an empty list
ErrorResultsEmpty(addrs, source) == <<>>

\* [ScrapeResult(addr, None, source, "error") for addr in addresses]
ErrorResults(addrs, source) ==
    [k \in 1..Len(addrs) |-> ScrapeResult(addrs[k], None, source, "error")]

(***************************************************************************)
(* requests_session and search_bas_portal                                  *)
(***************************************************************************)
\* Retry(total=3, ...): the number of retries urllib3 allows after the first attempt
RetryTotal == 3
status_forcelist == {500, 502, 503, 504}
\* variant: the Retry object is told to retry every method
AllowedMethodsWithPost == {"DELETE", "GET", "HEAD", "OPTIONS", "POST", "PUT", "TRACE"}
\* Retry is built without allowed_methods: urllib3's default set, which has no POST
AllowedMethods == {"DELETE", "GET", "HEAD", "OPTIONS", "PUT", "TRACE"}

\* a portal page: is there an "Owner Name" text node, is it inside a <tr>, and the
\* text of the <td> cells of that row
DocOwner == [label |-> TRUE, row |-> TRUE, td |-> <<<<"Owner Name">>, <<" ", "J", "S", " ">>>>]
DocBlankCell == [label |-> TRUE, row |-> TRUE, td |-> <<<<"Owner Name">>, <<" ">>>>]
DocOneCell == [label |-> TRUE, row |-> TRUE, td |-> <<<<"Owner Name">>>>]
DocNoRow == [label |-> TRUE, row |-> FALSE, td |-> <<>>]
DocNoLabel == [label |-> FALSE, row |-> FALSE, td |-> <<>>]
Docs == {DocOwner, DocBlankCell, DocOneCell, DocNoRow, DocNoLabel}

\* what one attempt of the request meets: an HTTP status (with the page, on 200), a
\* failure to connect, or a read timeout
Answers ==
    {[kind |-> "status", code |-> 200, doc |-> d] : d \in Docs}
    \cup {[kind |-> "status", code |-> c, doc |-> DocNoLabel] : c \in {404, 500, 503}}
    \cup {[kind |-> k, code |-> 0, doc |-> DocNoLabel] : k \in {"connerr", "readerr"}}

parse_bas_response(html) ==
    IF html.label
    THEN IF ~html.row THEN Raise    \* find_parent("tr") is None: AttributeError
         ELSE IF Len(html.td) >= 2 THEN Str(Strip(html.td[2])) ELSE None
    ELSE None

\* Retry._is_method_retryable / Retry.is_retry as configured by requests_session
IsMethodRetryable(method) == method \in AllowedMethods
IsRetry(method, code) == IsMethodRetryable(method) /\ code \in status_forcelist

\* does urllib3 ask its Retry object for another attempt after this answer
WantsRetry(method, ans) ==
    CASE ans.kind = "connerr" -> TRUE
      [] ans.kind = "readerr" -> IsMethodRetryable(method)
      [] OTHER -> IsRetry(method, ans.code)

\* the try block of search_bas_portal once session.post has returned or raised:
\* the pair (owner, status)
BasOutcome(ans, gaveUp) ==
    IF ans.kind # "status" \/ gaveUp THEN <<None, "error">>      \* session.post raised
    ELSE IF ans.code >= 400 THEN <<None, "error">>               \* raise_for_status
    ELSE LET owner == parse_bas_response(ans.doc)
         IN  IF owner = Raise THEN <<None, "error">>
             ELSE <<owner, StatusOf(owner)>>

BasSource(town) ==
    IF town = "Clarkstown" THEN "Clarkstown Tax Search" ELSE "Orangetown Tax Search"

(***************************************************************************)
(* scrape_ramapo                                                           *)
(***************************************************************************)
RamapoSource == "Ramapo Property Search"
PageSteps == {"goto", "fill", "click", "wait_for_selector", "text_content"}
\* one pass of the try block: the page call that raised (or "none") and the text read
PageOutcomes ==
    {[raised |-> s, text |-> None] : s \in PageSteps}
    \cup {[raised |-> "none", text |-> t] : t \in {None, Str(<<>>), Str(<<"R", "K">>)}}

\* variant: the except clause only logs, as in scrape_stony_point
RamapoResultLogOnly(addr, out) ==
    LET owner == IF out.raised # "none" THEN None ELSE out.text
    IN  ScrapeResult(addr, owner, RamapoSource, StatusOf(owner))

RamapoResult(addr, out) ==
    IF out.raised # "none"
    THEN ScrapeResult(addr, None, RamapoSource, "error")
    ELSE ScrapeResult(addr, out.text, RamapoSource, StatusOf(out.text))

(***************************************************************************)
(* scrape_stony_point                                                      *)
(***************************************************************************)
StonySource == "Stony Point Assessment Roll"
OwnerSmith == Str(<<"S", "M", "I", "T", "H">>)
RowElm == Str(<<"9", "ELM", "STONY", "POINT", "NY">>)
RowOak == Str(<<"4", "Oak", "Stony", "Point", "NY">>)
\* what pd.read_excel finds in stony_point_roll.xlsx
RollGood == [readable |-> TRUE, cols |-> {"Address", "Owner"},
             rows |-> <<[Address |-> RowOak, Owner |-> Str(<<"L", "E", "E">>)],
                        [Address |-> RowElm, Owner |-> OwnerSmith]>>]
RollBlankOwner == [readable |-> TRUE, cols |-> {"Address", "Owner"},
                   rows |-> <<[Address |-> NaN, Owner |-> OwnerSmith],
                              [Address |-> RowElm, Owner |-> NaN]>>]
RollNoMatch == [readable |-> TRUE, cols |-> {"Address", "Owner"},
                rows |-> <<[Address |-> RowOak, Owner |-> OwnerSmith]>>]
RollNoAddressCol == [readable |-> TRUE, cols |-> {"Location", "Owner"},
                     rows |-> <<[Address |-> RowElm, Owner |-> OwnerSmith]>>]
RollNoOwnerCol == [readable |-> TRUE, cols |-> {"Address", "Name"},
                   rows |-> <<[Address |-> RowElm, Owner |-> OwnerSmith]>>]
RollCorrupt == [readable |-> FALSE, cols |-> {}, rows |-> <<>>]
\* df before pd.read_excel has run
NoRoll == [readable |-> FALSE, cols |-> {}, rows |-> <<>>]
Rolls == {RollGood, RollBlankOwner, RollNoMatch, RollNoAddressCol, RollNoOwnerCol,
          RollCorrupt}

\* str.contains compiles addr as a regular expression: an unbalanced parenthesis
\* raises re.error
RegexValid(text) == \A k \in 1..Len(text) : text[k] # "("

\* the try block of the lookup loop: the value left in owner, or Raise
RowSearch(roll, addr) ==
    IF "Address" \notin roll.cols THEN Raise              \* KeyError: 'Address'
    ELSE IF ~RegexValid(addr.v) THEN Raise
    ELSE LET match == SelectSeq(roll.rows,
                          LAMBDA r : r.Address.t = "str" /\ Contains(r.Address.v, addr.v))
         IN  IF match = <<>> THEN None
             ELSE IF "Owner" \notin roll.cols THEN Raise  \* KeyError: 'Owner'
             ELSE match[1].Owner

\* owner after the try/except, where the except clause only logs
StonyOwner(found) == IF found = Raise THEN None ELSE found
\* status = "success" if owner else "not found", also after an exception
StonyStatus(found) == StatusOf(StonyOwner(found))

StonyResult(roll, addr) ==
    LET found == RowSearch(roll, addr)
    IN  ScrapeResult(addr, StonyOwner(found), StonySource, StonyStatus(found))

\* no session exists outside search_bas_portal
IdleHttp == [attempts |-> 0, total |-> 0, hist |-> <<>>, state |-> "idle"]

CurTown == GroupKeys[townIdx]
CurGroup == groups[CurTown]

Init ==
    /\ pc = "load"
    /\ fileType \in FileTypes
    /\ fileItems \in SeqsUpTo(ItemValues, MaxAddrs)
    /\ sync_playwright \in {"installed", "None"}
    /\ addresses = <<>>
    /\ groups = [key \in KeySet |-> <<>>]
    /\ townIdx = 1
    /\ i = 1
    /\ results = <<>>
    /\ all_results = <<>>
    /\ written = <<>>
    /\ http = IdleHttp
    /\ pageCalls = 0
    /\ ramapoDown = FALSE
    /\ lookups = [key \in KeySet |-> <<>>]
    /\ returned = [key \in KeySet |-> <<>>]
    /\ df = NoRoll
    /\ spRoll = "unloaded"
    /\ crashSite = "none"

\* an exception propagates out of main
Crash(site) ==
    /\ pc' = "crashed"
    /\ crashSite' = site

(***************************************************************************)
(* main                                                                    *)
(***************************************************************************)
Load ==
    /\ pc = "load"
    /\ IF fileType = "other"
       THEN /\ Crash("load")
            /\ UNCHANGED addresses
       ELSE /\ addresses' = load_incident_addresses(fileType, fileItems)
            /\ pc' = "group"
            /\ UNCHANGED crashSite
    /\ UNCHANGED <<fileType, fileItems, sync_playwright, groups, townIdx, i, results,
                   all_results, written, http, pageCalls, ramapoDown, lookups, returned,
                   df, spRoll>>

Group ==
    /\ pc = "group"
    /\ IF \A k \in 1..Len(addresses) : HasLower(addresses[k])
       THEN /\ groups' = group_addresses_by_town(addresses)
            /\ pc' = "dispatch"
            /\ UNCHANGED crashSite
       ELSE /\ Crash("group")
            /\ UNCHANGED groups
    /\ UNCHANGED <<fileType, fileItems, sync_playwright, addresses, townIdx, i, results,
                   all_results, written, http, pageCalls, ramapoDown, lookups, returned,
                   df, spRoll>>

\* what main leaves alone while a scraper runs
MainFrame == UNCHANGED <<fileType, fileItems, sync_playwright, addresses, groups, written>>

\* for town, addr_list in groups.items(): an empty group and "Unknown" are skipped
DispatchSkip ==
    /\ pc = "dispatch"
    /\ townIdx <= Len(GroupKeys)
    /\ CurGroup = <<>> \/ CurTown = "Unknown"
    /\ townIdx' = townIdx + 1
    /\ MainFrame
    /\ UNCHANGED <<pc, i, results, all_results, http, pageCalls, ramapoDown, lookups,
                   returned, df, spRoll, crashSite>>

\* the pc at which SCRAPER_MAP[town] starts
SCRAPER_MAP(town) ==
    CASE town = "Clarkstown" -> "bas"
      [] town = "Orangetown" -> "bas"
      [] town = "Ramapo" -> "ramapo"
      [] town = "Stony Point" -> "stony"

\* results = scraper(addr_list): the call
DispatchScraper ==
    /\ pc = "dispatch"
    /\ townIdx <= Len(GroupKeys)
    /\ CurGroup # <<>> /\ CurTown # "Unknown"
    /\ pc' = SCRAPER_MAP(CurTown)
    /\ i' = 1
    /\ results' = <<>>
    /\ MainFrame
    /\ UNCHANGED <<townIdx, all_results, http, pageCalls, ramapoDown, lookups, returned,
                   df, spRoll, crashSite>>

\* variant: the scraper's results are put in front of all_results
ReturnInFront(res) ==
    /\ all_results' = res \o all_results
    /\ returned' = [returned EXCEPT ![CurTown] = res]
    /\ townIdx' = townIdx + 1
    /\ pc' = "dispatch"
    /\ results' = <<>>
    /\ i' = 1

\* results = scraper(addr_list): the return, and all_results.extend(results)
Return(res) ==
    /\ all_results' = all_results \o res
    /\ returned' = [returned EXCEPT ![CurTown] = res]
    /\ townIdx' = townIdx + 1
    /\ pc' = "dispatch"
    /\ results' = <<>>
    /\ i' = 1

\* save_results(all_results, args.output)
Save ==
    /\ pc = "dispatch"
    /\ townIdx > Len(GroupKeys)
    /\ written' = all_results
    /\ pc' = "done"
    /\ UNCHANGED <<fileType, fileItems, sync_playwright, addresses, groups, townIdx, i,
                   results, all_results, http, pageCalls, ramapoDown, lookups, returned,
                   df, spRoll, crashSite>>

(***************************************************************************)
(* scrape_clarkstown / scrape_orangetown                                   *)
(***************************************************************************)
\* search_bas_portal up to session.post: a fresh session with its retry budget
BasSearch ==
    /\ pc = "bas"
    /\ i <= Len(CurGroup)
    /\ http' = [attempts |-> 0, total |-> RetryTotal, hist |-> <<>>, state |-> "sending"]
    /\ pc' = "bas_http"
    /\ MainFrame
    /\ UNCHANGED <<townIdx, i, results, all_results, pageCalls, ramapoDown, lookups,
                   returned, df, spRoll, crashSite>>

\* one attempt of session.post(url, data=payload, timeout=15); after the last one, the
\* rest of search_bas_portal and results.append
HttpAttempt ==
    /\ pc = "bas_http"
    /\ \E ans \in Answers :
        LET again == WantsRetry("POST", ans)
            hist == Append(http.hist, IF ans.kind = "status" THEN ans.code ELSE 0)
        IN  IF again /\ http.total > 0
            THEN /\ http' = [attempts |-> http.attempts + 1, total |-> http.total - 1,
                             hist |-> hist, state |-> "sending"]
                 /\ UNCHANGED <<pc, i, results, lookups>>
            ELSE LET out == BasOutcome(ans, again)
                 IN  /\ http' = [attempts |-> http.attempts + 1, total |-> http.total,
                                 hist |-> hist, state |-> "done"]
                     /\ results' = Append(results,
                            ScrapeResult(CurGroup[i], out[1], BasSource(CurTown), out[2]))
                     /\ lookups' = [lookups EXCEPT ![CurTown] = Append(@, out[2] = "error")]
                     /\ i' = i + 1
                     /\ pc' = "bas"
    /\ MainFrame
    /\ UNCHANGED <<townIdx, all_results, pageCalls, ramapoDown, returned, df, spRoll,
                   crashSite>>

\* the loop of scrape_clarkstown / scrape_orangetown is over: return results
BasReturn ==
    /\ pc = "bas"
    /\ i > Len(CurGroup)
    /\ Return(results)
    /\ http' = IdleHttp
    /\ MainFrame
    /\ UNCHANGED <<pageCalls, ramapoDown, lookups, df, spRoll, crashSite>>

(***************************************************************************)
(* scrape_ramapo                                                           *)
(***************************************************************************)
\* the sync_playwright check, then entering "with sync_playwright() as p"
RamapoEnter ==
    /\ pc = "ramapo"
    /\ \/ /\ sync_playwright = "None"
          /\ Return(ErrorResults(CurGroup, RamapoSource))
          /\ ramapoDown' = TRUE
          /\ UNCHANGED crashSite
       \/ /\ sync_playwright # "None"
          /\ pc' = "ramapo_launch"
          /\ UNCHANGED <<townIdx, i, results, all_results, returned, ramapoDown, crashSite>>
       \/ /\ sync_playwright # "None"          \* the driver process does not start
          /\ Crash("ramapo_start")
          /\ UNCHANGED <<townIdx, i, results, all_results, returned, ramapoDown>>
    /\ MainFrame
    /\ UNCHANGED <<http, pageCalls, lookups, df, spRoll>>

\* variant: a failed launch is logged and the function carries on
RamapoLaunchCarriesOn ==
    /\ pc = "ramapo_launch"
    /\ pc' = "ramapo_newpage"
    /\ ramapoDown' \in BOOLEAN
    /\ MainFrame
    /\ UNCHANGED <<townIdx, i, results, all_results, returned, http, pageCalls, lookups,
                   df, spRoll, crashSite>>

\* browser = p.chromium.launch(headless=True), inside its try
RamapoLaunch ==
    /\ pc = "ramapo_launch"
    /\ \/ /\ pc' = "ramapo_newpage"
          /\ UNCHANGED <<townIdx, i, results, all_results, returned, ramapoDown>>
       \/ /\ Return(ErrorResults(CurGroup, RamapoSource))
          /\ ramapoDown' = TRUE
    /\ MainFrame
    /\ UNCHANGED <<http, pageCalls, lookups, df, spRoll, crashSite>>

\* page = browser.new_page(), outside any try
RamapoNewPage ==
    /\ pc = "ramapo_newpage"
    /\ \/ /\ pc' = "ramapo_loop"
          /\ UNCHANGED crashSite
       \/ Crash("ramapo_newpage")
    /\ MainFrame
    /\ UNCHANGED <<townIdx, i, results, all_results, http, pageCalls, ramapoDown, lookups,
                   returned, df, spRoll>>

\* one pass of "for addr in addresses"
RamapoLookup ==
    /\ pc = "ramapo_loop"
    /\ i <= Len(CurGroup)
    /\ \E out \in PageOutcomes :
        /\ results' = Append(results, RamapoResult(CurGroup[i], out))
        /\ lookups' = [lookups EXCEPT ![CurTown] = Append(@, out.raised # "none")]
    /\ pageCalls' = pageCalls + 1
    /\ i' = i + 1
    /\ MainFrame
    /\ UNCHANGED <<pc, townIdx, all_results, http, ramapoDown, returned, df, spRoll,
                   crashSite>>

\* browser.close(), outside any try, then return results
RamapoClose ==
    /\ pc = "ramapo_loop"
    /\ i > Len(CurGroup)
    /\ \/ /\ Return(results)
          /\ UNCHANGED crashSite
       \/ /\ Crash("ramapo_close")
          /\ UNCHANGED <<townIdx, i, results, all_results, returned>>
    /\ MainFrame
    /\ UNCHANGED <<http, pageCalls, ramapoDown, lookups, df, spRoll>>

(***************************************************************************)
(* scrape_stony_point                                                      *)
(***************************************************************************)
\* the first try block: download unless cached, then pd.read_excel
StonyLoad ==
    /\ pc = "stony"
    /\ \E cached \in BOOLEAN, downloaded \in BOOLEAN, sheet \in Rolls :
        IF (~cached /\ ~downloaded) \/ ~sheet.readable
        THEN /\ spRoll' = "failed"
             /\ Return(ErrorResults(CurGroup, StonySource))
             /\ UNCHANGED df
        ELSE /\ spRoll' = "loaded"
             /\ df' = sheet
             /\ pc' = "stony_loop"
             /\ UNCHANGED <<townIdx, i, results, all_results, returned>>
    /\ MainFrame
    /\ UNCHANGED <<http, pageCalls, ramapoDown, lookups, crashSite>>

\* one pass of "for addr in addresses"
StonyLookup ==
    /\ pc = "stony_loop"
    /\ i <= Len(CurGroup)
    /\ results' = Append(results, StonyResult(df, CurGroup[i]))
    /\ lookups' = [lookups EXCEPT ![CurTown] = Append(@, RowSearch(df, CurGroup[i]) = Raise)]
    /\ i' = i + 1
    /\ MainFrame
    /\ UNCHANGED <<pc, townIdx, all_results, http, pageCalls, ramapoDown, returned, df,
                   spRoll, crashSite>>

StonyReturn ==
    /\ pc = "stony_loop"
    /\ i > Len(CurGroup)
    /\ Return(results)
    /\ MainFrame
    /\ UNCHANGED <<http, pageCalls, ramapoDown, lookups, df, spRoll, crashSite>>

Next ==
    \/ Load \/ Group \/ DispatchSkip \/ DispatchScraper \/ Save
    \/ BasSearch \/ HttpAttempt \/ BasReturn
    \/ RamapoEnter \/ RamapoLaunch \/ RamapoNewPage \/ RamapoLookup \/ RamapoClose
    \/ StonyLoad \/ StonyLookup \/ StonyReturn

(***************************************************************************)
(* Properties                                                              *)
(***************************************************************************)
\* every ScrapeResult produced so far, returned to main or still in a scraper's list
Produced == all_results \o results
Flat(f) == f["Clarkstown"] \o f["Orangetown"] \o f["Ramapo"] \o f["Stony Point"]
AddressesOf(rs) == [k \in 1..Len(rs) |-> rs[k].address]
PresentNonEmpty(owner) == owner.t = "str" /\ owner.v # <<>>
\* the three values of the status field, as the scrapers spell them
StatusValues == {"success", "not found", "error"}
\* group_addresses_by_town has just returned to main
Grouped == pc = "dispatch" /\ townIdx = 1

\* C1: every result of every strategy has one of the three status values, and its
\* status is success exactly when its owner_name is present and non-empty.
C1_StatusIffOwner ==
    \A k \in 1..Len(Produced) :
        /\ Produced[k].status \in StatusValues
        /\ Produced[k].status = "success" <=> PresentNonEmpty(Produced[k].owner_name)

\* C2: group_addresses_by_town partitions its input: the groups are the four towns and
\* "Unknown", each group is the input filtered, in input order, to the addresses
\* detect_town sends there ("Unknown": those for which it returns none), so that no
\* occurrence is dropped or duplicated.
C2_GroupsPartitionInput ==
    Grouped =>
        /\ DOMAIN groups = KeySet
        /\ \A n \in 1..Len(TOWNS) :
              groups[TOWNS[n]] = SelectSeq(addresses, LAMBDA a : detect_town(a) = TOWNS[n])
        /\ groups["Unknown"] = SelectSeq(addresses, LAMBDA a : detect_town(a) = "None")
        /\ Len(Flat(groups)) + Len(groups["Unknown"]) = Len(addresses)
C2_Witness ==
    /\ pc = "dispatch"
    /\ Len(addresses) = 2
    /\ groups["Unknown"] = <<AddrNowhere>>
    /\ groups["Orangetown"] = <<AddrOrangetown>>

\* C3: when main has run to completion, the addresses of the written results are the
\* groups of Clarkstown, Orangetown, Ramapo and Stony Point, in that order and each in
\* its input order: one result per routed address, none for an "Unknown" address.
C3_WrittenAddressesAreKnownGroups ==
    pc = "done" => AddressesOf(written) = Flat(groups)
C3_Witness ==
    /\ pc = "done"
    /\ addresses = <<AddrStony, AddrClarkstown>>
    /\ AddressesOf(written) = <<AddrClarkstown, AddrStony>>

\* C4: no exception escapes a scraper, so main goes on to every remaining group and
\* reaches save_results: main never ends in an exception raised inside a scraper.
C4_NoExceptionEscapesStrategy ==
    crashSite \notin {"ramapo_start", "ramapo_newpage", "ramapo_close"}

\* C5: if the Stony Point roll cannot be downloaded or parsed, scrape_stony_point
\* returns one result per address of its group, each with status error and no owner;
\* main is not interrupted, can always take its next step until it is done, and what
\* it writes is the results of the other towns followed by those errors.
C5_RollFailureIsErrorPerAddress ==
    spRoll = "failed" =>
        LET g == groups["Stony Point"]
            r == returned["Stony Point"]
        IN  /\ Len(r) = Len(g)
            /\ \A k \in 1..Len(g) :
                  r[k].address = g[k] /\ r[k].status = "error" /\ r[k].owner_name = None
            /\ crashSite = "none"
            /\ pc \in {"dispatch", "done"}
            /\ pc = "dispatch" => ENABLED Next
            /\ all_results = Flat(returned)
            /\ pc = "done" => written = all_results
C5_Witness ==
    /\ spRoll = "failed"
    /\ pc = "done"
    /\ Len(written) = 2
    /\ written[1].status = "success"
    /\ written[2].address = AddrStony

\* C6: if playwright could not be imported or the browser cannot be launched,
\* scrape_ramapo returns status error and no owner for every address of its group and
\* makes no page call at all.
C6_BrowserDownIsErrorWithoutCalls ==
    ramapoDown =>
        LET g == groups["Ramapo"]
            r == returned["Ramapo"]
        IN  /\ pageCalls = 0
            /\ Len(r) = Len(g)
            /\ \A k \in 1..Len(g) :
                  r[k].address = g[k] /\ r[k].status = "error" /\ r[k].owner_name = None
C6_Witness ==
    /\ ramapoDown
    /\ sync_playwright = "installed"
    /\ Len(returned["Ramapo"]) = 2

\* C7: a missing, null or non-string address value is turned into an empty string and
\* filtered out before grouping: group_addresses_by_town only ever receives non-empty
\* strings, and the run does not fail on such a record.
C7_OnlyNonEmptyStringsAreGrouped ==
    /\ pc = "group" =>
          \A k \in 1..Len(addresses) : addresses[k].t = "str" /\ addresses[k].v # <<>>
    /\ crashSite # "group"

\* C8: a form-portal request whose every answer is a transient status (500, 502, 503,
\* 504) is attempted at most 3 times, the first attempt counted, and then ends in
\* status error; an attempt answered with a 4xx status is the last one.
C8_TransientStatusAttemptsBounded ==
    LET n == Len(http.hist)
    IN  /\ (\A k \in 1..n : http.hist[k] \in status_forcelist) => http.attempts <= 3
        /\ (http.state = "done" /\ http.hist[n] \in status_forcelist) =>
              results[Len(results)].status = "error"
        /\ \A k \in 1..n :
              http.hist[k] \in 400..499 => k = n /\ http.state = "done"
        /\ http.attempts = n
C8_Witness ==
    /\ http.state = "done"
    /\ http.hist = <<503>>
    /\ results[Len(results)].status = "error"

\* C9: with the browser launched, a lookup that raises gives status error to its own
\* address only: the loop goes on, the results so far are one per address in input
\* order, a result has status error exactly when its own lookup raised, earlier
\* results are never changed, and the list returned covers the whole group.
C9_LoopState ==
    LET g == groups["Ramapo"]
        inLoop == pc = "ramapo_loop"
        r == IF inLoop THEN results ELSE returned["Ramapo"]
    IN  (inLoop \/ (returned["Ramapo"] # <<>> /\ ~ramapoDown)) =>
            /\ Len(r) = IF inLoop THEN i - 1 ELSE Len(g)
            /\ Len(r) <= Len(g)
            /\ Len(lookups["Ramapo"]) = Len(r)
            /\ \A k \in 1..Len(r) :
                  /\ r[k].address = g[k]
                  /\ r[k].status = "error" <=> lookups["Ramapo"][k]
C9_LoopStep ==
    (pc = "ramapo_loop" /\ pc' \in {"ramapo_loop", "dispatch"}) =>
        LET r == IF pc' = "ramapo_loop" THEN results' ELSE returned'["Ramapo"]
        IN  /\ Len(r) >= Len(results)
            /\ SubSeq(r, 1, Len(results)) = results
C9_ErrorOnlyForFailedLookup == [](C9_LoopState) /\ [][C9_LoopStep]_vars
C9_Witness ==
    /\ pc = "dispatch"
    /\ lookups["Ramapo"] = <<TRUE, FALSE>>
    /\ returned["Ramapo"][1].status = "error"
    /\ returned["Ramapo"][2].status = "success"

\* C10: once the roll is loaded, an address whose row search raised is reported with
\* status error; "not found" is only reported for a search that completed.
C10_FailedRowSearchIsError ==
    LET r == IF pc = "stony_loop" THEN results ELSE returned["Stony Point"]
    IN  spRoll = "loaded" =>
            \A k \in 1..Len(r) : lookups["Stony Point"][k] => r[k].status = "error"

Spec == Init /\ [][Next]_vars
====
